---------------------------- MODULE Spec2Model ----------------------------
(***************************************************************************)
(* A model of wiki.go: the path validator (validPath), the page store      *)
(* (Page.save, loadPage), the three page handlers, the dispatcher          *)
(* (makeHandler) and the registration done in main.                        *)
(*                                                                         *)
(* Strings are sequences of one-character strings, so that the regular     *)
(* expression and the file names are computed character by character.      *)
(* Page bodies are sequences of bytes (numbers in 0..255).                 *)
(***************************************************************************)
EXTENDS Naturals, Sequences, FiniteSets

VARIABLES
    vpath,      \* the path handed to validPath.FindStringSubmatch
    vm,         \* its result: NoMatch (a nil slice) or <<m[0], m[1], m[2]>>
    vdone,      \* whether FindStringSubmatch has run on vpath
    files,      \* the working directory: file name -> content
    req,        \* the last request served: its path and its form
    resp,       \* the response written for it
    ran,        \* the page handler the dispatcher invoked for it, and the title it got
    lastSaved,  \* history: title -> body of its last save request, when that one succeeded
    conn        \* the requests served concurrently: where each one is in its handler

vars == <<vpath, vm, vdone, files, req, resp, ran, lastSaved, conn>>

(* A nil slice: no match. *)
NoMatch == << >>
Nil == "nil"

-----------------------------------------------------------------------------
(* Bounds of the model. *)

MaxTailLen == 3

MaxBodyLen == 1

MaxInflight == 2

-----------------------------------------------------------------------------
(* Characters and strings. *)

Lower == {"a","b","c","d","e","f","g","h","i","j","k","l","m",
          "n","o","p","q","r","s","t","u","v","w","x","y","z"}
Upper == {"A","B","C","D","E","F","G","H","I","J","K","L","M",
          "N","O","P","Q","R","S","T","U","V","W","X","Y","Z"}
Digit == {"0","1","2","3","4","5","6","7","8","9"}

(* The character class [a-zA-Z0-9] of validPath. *)
AlnumClass == Lower \cup Upper \cup Digit

(* The alternation (edit|save|view) of validPath, in its order. *)
Alternatives == << <<"e","d","i","t">>, <<"s","a","v","e">>, <<"v","i","e","w">> >>

SeqsUpTo(S, n) == UNION { [1..k -> S] : k \in 0..n }

-----------------------------------------------------------------------------
(* validPath = "^/(edit|save|view)/([a-zA-Z0-9]+)$", run as a scanner over *)
(* the text: each piece returns the position after what it consumed, or 0  *)
(* when it does not match at that position.                                *)

(* A literal at position i. *)
MatchLit(p, i, lit) ==
    IF i = 0 THEN 0
    ELSE IF i + Len(lit) - 1 <= Len(p) /\ SubSeq(p, i, i + Len(lit) - 1) = lit
         THEN i + Len(lit)
         ELSE 0

(* The alternation at position i: the first alternative that matches. *)
RECURSIVE MatchAlt(_, _, _)
MatchAlt(p, i, k) ==
    IF k > Len(Alternatives) THEN 0
    ELSE IF MatchLit(p, i, Alternatives[k]) # 0
         THEN MatchLit(p, i, Alternatives[k])
         ELSE MatchAlt(p, i, k + 1)

(* [a-zA-Z0-9]+ at position i, greedy: 0 when not even one character matches. *)
RECURSIVE ClassRun(_, _)
ClassRun(p, i) ==
    IF i <= Len(p) /\ p[i] \in AlnumClass THEN ClassRun(p, i + 1) ELSE i

MatchClassPlus(p, i) ==
    IF i = 0 THEN 0
    ELSE IF ClassRun(p, i) > i THEN ClassRun(p, i) ELSE 0

(* Mutant of AtEnd: $ as in Perl, also before a final newline. *)
AtEndOrBeforeNewline(p, i) == i = Len(p) + 1 \/ (i = Len(p) /\ p[i] = "\n")

(* $ without the multi-line flag: the end of the text and nowhere else. *)
AtEnd(p, i) == i = Len(p) + 1

(* validPath.FindStringSubmatch(p): NoMatch, or <<m[0], m[1], m[2]>>.  The *)
(* pattern is anchored at the start, so the only attempt is at position 1. *)
FindStringSubmatch(p) ==
    LET i1 == MatchLit(p, 1, <<"/">>)
        i2 == IF i1 = 0 THEN 0 ELSE MatchAlt(p, i1, 1)
        i3 == MatchLit(p, i2, <<"/">>)
        i4 == MatchClassPlus(p, i3)
    IN  IF i4 # 0 /\ AtEnd(p, i4)
        THEN << p, SubSeq(p, i1, i2 - 1), SubSeq(p, i3, i4 - 1) >>
        ELSE NoMatch

-----------------------------------------------------------------------------
(* The paths the validator is run on: a prefix, right or wrong in one of   *)
(* several ways, followed by every tail up to MaxTailLen characters.       *)

TailChars == {"a", "Z", "1", " ", "/", ".", "-", "\n"}

Prefixes ==
    { <<"/","v","i","e","w","/">>, <<"/","e","d","i","t","/">>,
      <<"/","s","a","v","e","/">>,
      <<"/","v","i","e","w">>, <<"v","i","e","w","/">>,
      <<"/","V","i","e","w","/">>, <<"/","v","i","e","/">>,
      <<"/","v","i","e","w","s","/">>, <<"/","d","e","l","/">>,
      <<"/","/","v","i","e","w","/">>, <<"/","x","/","v","i","e","w","/">>,
      <<"/","e","d","i","t","s","a","v","e","/">>,
      <<"/">>, << >> }

ValidatorPaths == { pre \o t : pre \in Prefixes, t \in SeqsUpTo(TailChars, MaxTailLen) }


-----------------------------------------------------------------------------
(* The page store: Page, Page.save, loadPage over ioutil.WriteFile and     *)
(* ioutil.ReadFile.  The directory is a function from file names to        *)
(* contents; a name outside its domain is a file that does not exist.      *)

NoPage == [Title |-> << >>, Body |-> << >>]

(* Mutant of Filename: the title folded to lower case first. *)
FoldChar(c) == CASE c = "A" -> "a" [] c = "Z" -> "z" [] OTHER -> c

FilenameFolded(title) ==
    [i \in 1..Len(title) |-> FoldChar(title[i])] \o <<".", "t", "x", "t">>

(* title + ".txt" *)
Filename(title) == title \o <<".", "t", "x", "t">>

(* ioutil.ReadFile(name): the content, or an error when the open fails. *)
ReadFile(fs, name) ==
    IF name \in DOMAIN fs
    THEN [err |-> Nil, data |-> fs[name]]
    ELSE [err |-> "no such file or directory", data |-> << >>]

(* The directory with file name holding data (created when missing). *)
Put(fs, name, data) ==
    [n \in DOMAIN fs \cup {name} |-> IF n = name THEN data ELSE fs[n]]

(* What can go wrong in ioutil.WriteFile: nothing, the open (the file is   *)
(* left as it was), or the write after k bytes (the file was created or    *)
(* truncated by the open and holds those k bytes).                         *)
WriteFaults(data) ==
    {[at |-> "none", k |-> Len(data), err |-> Nil]}
        \cup {[at |-> "open", k |-> 0, err |-> "permission denied"]}
        \cup {[at |-> "write", k |-> k, err |-> "no space left on device"] :
                 k \in 0..(Len(data) - 1)}

(* Mutant of WriteFile: the open without O_TRUNC, so that what the old     *)
(* content had beyond the new data stays.                                  *)
WriteFileNoTrunc(fs, name, data, f) ==
    IF f.at = "open"
    THEN [err |-> f.err, fs |-> fs]
    ELSE LET old == IF name \in DOMAIN fs THEN fs[name] ELSE << >>
             new == SubSeq(data, 1, f.k)
         IN  [err |-> f.err,
              fs  |-> Put(fs, name, new \o SubSeq(old, Len(new) + 1, Len(old)))]

(* ioutil.WriteFile(name, data, 0600) under fault f: open with            *)
(* O_WRONLY|O_CREATE|O_TRUNC, write, close.                                *)
WriteFile(fs, name, data, f) ==
    IF f.at = "open"
    THEN [err |-> f.err, fs |-> fs]
    ELSE [err |-> f.err, fs |-> Put(fs, name, SubSeq(data, 1, f.k))]

\* func (p *Page) save() error
save(fs, p, f) == WriteFile(fs, Filename(p.Title), p.Body, f)

(* Mutant of loadPage: the page is built without the body read. *)
loadPageDropsBody(fs, title) ==
    LET r == ReadFile(fs, Filename(title))
    IN  IF r.err # Nil
        THEN [err |-> r.err, page |-> NoPage]
        ELSE [err |-> Nil, page |-> [Title |-> title, Body |-> << >>]]

\* func loadPage(title string) returns the page or the error
loadPage(fs, title) ==
    LET r == ReadFile(fs, Filename(title))
    IN  IF r.err # Nil
        THEN [err |-> r.err, page |-> NoPage]
        ELSE [err |-> Nil, page |-> [Title |-> title, Body |-> r.data]]

-----------------------------------------------------------------------------
(* Responses: what the handler wrote to the http.ResponseWriter. *)

NoTemplate == << >>
NoLocation == << >>

(* http.NotFound(w, r) *)
NotFound ==
    [status |-> 404, location |-> NoLocation, tmpl |-> NoTemplate,
     page |-> NoPage, text |-> "404 page not found"]

(* http.Redirect(w, r, url, code) *)
Redirect(url, code) ==
    [status |-> code, location |-> url, tmpl |-> NoTemplate,
     page |-> NoPage, text |-> ""]

(* http.Error(w, text, code) *)
Error(text, code) ==
    [status |-> code, location |-> NoLocation, tmpl |-> NoTemplate,
     page |-> NoPage, text |-> text]

(* A template executed on a page into w: status 200. *)
Rendered(name, p) ==
    [status |-> 200, location |-> NoLocation, tmpl |-> name,
     page |-> p, text |-> ""]

StatusFound == 302
StatusInternalServerError == 500

(* template.Must(template.ParseFiles("edit.html", "view.html")) *)
templates ==
    { <<"e","d","i","t",".","h","t","m","l">>, <<"v","i","e","w",".","h","t","m","l">> }

(* templates.ExecuteTemplate(w, name, p), the error it returns: terr is    *)
(* the error the execution of the template itself runs into (Nil: none).   *)
ExecuteTemplate(name, p, terr) ==
    IF name \notin templates
    THEN "html/template: template is undefined"
    ELSE terr

(* func renderTemplate(w, tmpl, p) *)
renderTemplate(tmpl, p, terr) ==
    LET name == tmpl \o <<".","h","t","m","l">>
        err  == ExecuteTemplate(name, p, terr)
    IN  IF err # Nil
        THEN Error(err, StatusInternalServerError)
        ELSE Rendered(name, p)

-----------------------------------------------------------------------------
(* The page handlers.  Each returns the response and the directory after.  *)

(* r.FormValue(key): the value of the field, "" when the form has none. *)
FormValue(form, key) == IF key \in DOMAIN form THEN form[key] ELSE << >>

(* Mutant of viewHandler: the redirect goes to the view path. *)
viewHandlerRedirectsToView(fs, form, title, f, terr) ==
    LET l == loadPage(fs, title)
    IN  IF l.err # Nil
        THEN [resp |-> Redirect(<<"/","v","i","e","w","/">> \o title, StatusFound),
              fs |-> fs]
        ELSE [resp |-> renderTemplate(<<"v","i","e","w">>, l.page, terr), fs |-> fs]

(* func viewHandler(w, r, title) *)
viewHandler(fs, form, title, f, terr) ==
    LET l == loadPage(fs, title)
    IN  IF l.err # Nil
        THEN [resp |-> Redirect(<<"/","e","d","i","t","/">> \o title, StatusFound),
              fs |-> fs]
        ELSE [resp |-> renderTemplate(<<"v","i","e","w">>, l.page, terr), fs |-> fs]

(* Mutant of editHandler: the load error is reported instead of replaced. *)
editHandlerReportsLoadError(fs, form, title, f, terr) ==
    LET l == loadPage(fs, title)
    IN  IF l.err # Nil
        THEN [resp |-> Error(l.err, StatusInternalServerError), fs |-> fs]
        ELSE [resp |-> renderTemplate(<<"e","d","i","t">>, l.page, terr), fs |-> fs]

(* func editHandler(w, r, title) *)
editHandler(fs, form, title, f, terr) ==
    LET l == loadPage(fs, title)
        p == IF l.err # Nil THEN [Title |-> title, Body |-> << >>] ELSE l.page
    IN  [resp |-> renderTemplate(<<"e","d","i","t">>, p, terr), fs |-> fs]

(* Mutant of saveHandler: the error of save is dropped. *)
saveHandlerIgnoresError(fs, form, title, f, terr) ==
    LET body == FormValue(form, "body")
        p    == [Title |-> title, Body |-> body]
        s    == save(fs, p, f)
    IN  [resp |-> Redirect(<<"/","v","i","e","w","/">> \o title, StatusFound),
         fs |-> s.fs]

(* func saveHandler(w, r, title) *)
saveHandler(fs, form, title, f, terr) ==
    LET body == FormValue(form, "body")
        p    == [Title |-> title, Body |-> body]
        s    == save(fs, p, f)
    IN  IF s.err # Nil
        THEN [resp |-> Error(s.err, StatusInternalServerError), fs |-> s.fs]
        ELSE [resp |-> Redirect(<<"/","v","i","e","w","/">> \o title, StatusFound),
              fs |-> s.fs]

-----------------------------------------------------------------------------
(* The routing main sets up: http.HandleFunc registers each wrapped        *)
(* handler in the default ServeMux under a subtree pattern, and            *)
(* ListenAndServe(":8080", nil) serves every request through that mux.     *)

(* Mutant of Registered: two handlers registered under each other's path. *)
RegisteredSwapped ==
    { [pattern |-> <<"/","v","i","e","w","/">>, fn |-> "saveHandler"],
      [pattern |-> <<"/","e","d","i","t","/">>, fn |-> "editHandler"],
      [pattern |-> <<"/","s","a","v","e","/">>, fn |-> "viewHandler"] }

Registered ==
    { [pattern |-> <<"/","v","i","e","w","/">>, fn |-> "viewHandler"],
      [pattern |-> <<"/","e","d","i","t","/">>, fn |-> "editHandler"],
      [pattern |-> <<"/","s","a","v","e","/">>, fn |-> "saveHandler"] }

Patterns == { e.pattern : e \in Registered }

HasPrefix(s, pre) == Len(pre) <= Len(s) /\ SubSeq(s, 1, Len(pre)) = pre

(* The segments of a path, split at every "/". *)
RECURSIVE SplitFrom(_, _, _)
SplitFrom(p, i, cur) ==
    IF i > Len(p) THEN <<cur>>
    ELSE IF p[i] = "/" THEN <<cur>> \o SplitFrom(p, i + 1, << >>)
         ELSE SplitFrom(p, i + 1, Append(cur, p[i]))

(* path.Clean on the segments of a rooted path: empty and "." segments go, *)
(* ".." takes the segment before it with it (at the root: only itself).    *)
RECURSIVE CleanSegs(_, _, _)
CleanSegs(segs, k, stack) ==
    IF k > Len(segs) THEN stack
    ELSE IF segs[k] = << >> \/ segs[k] = <<".">> THEN CleanSegs(segs, k + 1, stack)
    ELSE IF segs[k] = <<".", ".">>
         THEN CleanSegs(segs, k + 1,
                        IF stack = << >> THEN stack ELSE SubSeq(stack, 1, Len(stack) - 1))
         ELSE CleanSegs(segs, k + 1, Append(stack, segs[k]))

RECURSIVE JoinSegs(_, _)
JoinSegs(stack, k) ==
    IF k > Len(stack) THEN << >>
    ELSE <<"/">> \o stack[k] \o JoinSegs(stack, k + 1)

Clean(p) ==
    LET stack == CleanSegs(SplitFrom(p, 1, << >>), 1, << >>)
    IN  IF stack = << >> THEN <<"/">> ELSE JoinSegs(stack, 1)

(* net/http cleanPath: the canonical path, a trailing slash kept. *)
cleanPath(p) ==
    IF p = << >> THEN <<"/">>
    ELSE LET q  == IF p[1] # "/" THEN <<"/">> \o p ELSE p
             np == Clean(q)
         IN  IF q[Len(q)] = "/" /\ np # <<"/">> THEN np \o <<"/">> ELSE np

(* ServeMux match: the exact pattern, else the longest subtree pattern     *)
(* that is a prefix of the path.                                           *)
muxMatch(path) ==
    LET cands == { e \in Registered :
                     \/ e.pattern = path
                     \/ e.pattern[Len(e.pattern)] = "/" /\ HasPrefix(path, e.pattern) }
    IN  IF cands = {} THEN [kind |-> "notfound", to |-> << >>, fn |-> "none"]
        ELSE LET best == CHOOSE e \in cands :
                            \A o \in cands : Len(o.pattern) <= Len(e.pattern)
             IN  [kind |-> "handler", to |-> << >>, fn |-> best.fn]

(* ServeMux.Handler for a request other than CONNECT: a subtree root named *)
(* without its slash and a path that is not canonical are redirected       *)
(* (301); every other path goes to the handler that matches, or to         *)
(* NotFoundHandler.                                                        *)
muxHandler(path) ==
    LET cp == cleanPath(path)
    IN  IF cp \notin Patterns /\ (cp \o <<"/">>) \in Patterns /\ cp[Len(cp)] # "/"
        THEN [kind |-> "redirect", to |-> cp \o <<"/">>, fn |-> "none"]
        ELSE IF cp # path
             THEN [kind |-> "redirect", to |-> cp, fn |-> "none"]
             ELSE muxMatch(path)

-----------------------------------------------------------------------------
(* The dispatcher. *)

NoHandler == [fn |-> "none", title |-> << >>, err |-> Nil]

(* The call fn(w, r, title) of a registered handler. *)
Call(fn, fs, form, title, f, terr) ==
    CASE fn = "viewHandler" -> viewHandler(fs, form, title, f, terr)
      [] fn = "editHandler" -> editHandler(fs, form, title, f, terr)
      [] fn = "saveHandler" -> saveHandler(fs, form, title, f, terr)

(* Mutant of makeHandler: the handler is called whether or not the path    *)
(* matched, with whatever follows the action segment as title.             *)
makeHandlerUnchecked(fn, fs, path, form, f, terr) ==
    LET title == SubSeq(path, 7, Len(path))
    IN  [out |-> Call(fn, fs, form, title, f, terr),
         ran |-> [fn |-> fn, title |-> title,
                  err |-> IF fn = "saveHandler" THEN f.err ELSE Nil]]

(* makeHandler(fn): the http.HandlerFunc it returns, run on a request. *)
makeHandler(fn, fs, path, form, f, terr) ==
    LET m == FindStringSubmatch(path)
    IN  IF m = NoMatch
        THEN [out |-> [resp |-> NotFound, fs |-> fs], ran |-> NoHandler]
        ELSE [out |-> Call(fn, fs, form, m[3], f, terr),
              ran |-> [fn |-> fn, title |-> m[3],
                       err |-> IF fn = "saveHandler" THEN f.err ELSE Nil]]

-----------------------------------------------------------------------------
(* The requests the server is driven with. *)

BodyBytes == {104, 105}

Bodies == SeqsUpTo(BodyBytes, MaxBodyLen)

(* A form without fields, and the forms with a field "body". *)
NoForm == [k \in {} |-> << >>]
Forms == {NoForm} \cup { [k \in {"body"} |-> b] : b \in Bodies }

ReqTitles == { <<"a">>, <<"A">> }

PagePaths ==
    { pre \o t : pre \in { <<"/","v","i","e","w","/">>, <<"/","e","d","i","t","/">>,
                           <<"/","s","a","v","e","/">> },
                 t \in ReqTitles }

OtherPaths ==
    { << >>, <<"/">>, <<"/","a">>,
      <<"/","v","i","e","w">>, <<"/","s","a","v","e">>,
      <<"/","v","i","e","w","/">>, <<"/","e","d","i","t","/">>,
      <<"/","v","i","e","w","/","a","/">>,
      <<"/","v","i","e","w","/","/","a">>,
      <<"/","v","i","e","w","/",".",".","/","a">>,
      <<"/","s","a","v","e","/","a",".","t","x","t">>,
      <<"/","s","a","v","e","/","a","-","1">>,
      <<"/","e","d","i","t","/","a"," ","1">>,
      <<"/","s","a","v","e","/",".",".","/","v","i","e","w","/","a">>,
      <<"/","a","/",".",".","/","s","a","v","e","/","A">>,
      <<"/","e","d","i","t","/",".","/","A">>,
      <<"/","v","i","e","w","/",".",".","a">>,
      <<"/","v","i","e","w","s","/","a">> }

ReqPaths == PagePaths \cup OtherPaths

TemplateErrs == {Nil, "template: execution failed"}

NoFault == [at |-> "none", k |-> 0, err |-> Nil]

(* Where the mux sends each of these paths. *)
Routes == [p \in ReqPaths |-> muxHandler(p)]

-----------------------------------------------------------------------------
(* The server, one request at a time. *)

NoRequest == [path |-> << >>, form |-> NoForm]

(* What a file holds, or that there is no such file. *)
Missing == [exists |-> FALSE, data |-> << >>]
Holding(d) == [exists |-> TRUE, data |-> d]
Content(fs, name) == IF name \in DOMAIN fs THEN Holding(fs[name]) ELSE Missing

(* A connection with no request yet.  before, seen and ov are history:     *)
(* what the file held when a save request came in, what the load of a view *)
(* or edit got, and the requests that were in their handler at some moment *)
(* this one was too.                                                       *)
Idle ==
    [pc |-> "idle", path |-> << >>, fn |-> "none", title |-> << >>, body |-> << >>,
     buf |-> << >>, off |-> 0, resp |-> Error("", 0),
     before |-> Missing, seen |-> Missing, ov |-> {}]

Init ==
    /\ vpath = << >>
    /\ vm = NoMatch
    /\ vdone = FALSE
    /\ files = [n \in {} |-> << >>]
    /\ req = NoRequest
    /\ resp = Error("", 0)
    /\ ran = NoHandler
    /\ lastSaved = [t \in {} |-> << >>]
    /\ conn = [c \in 1..MaxInflight |-> Idle]

(* The history of successful saves after a request. *)
Saved(ls, r, form) ==
    IF r.ran.fn # "saveHandler" THEN ls
    ELSE IF r.ran.err = Nil
         THEN [t \in DOMAIN ls \cup {r.ran.title} |->
                  IF t = r.ran.title THEN FormValue(form, "body") ELSE ls[t]]
         ELSE [t \in DOMAIN ls \ {r.ran.title} |-> ls[t]]

(* A request the mux answers itself with a redirect to the canonical path  *)
(* (301, Moved Permanently).                                               *)
MuxRedirect ==
    \E path \in ReqPaths :
        /\ Routes[path].kind = "redirect"
        /\ req' = [path |-> path, form |-> NoForm]
        /\ resp' = Redirect(Routes[path].to, 301)
        /\ ran' = NoHandler
        /\ UNCHANGED <<vpath, vm, vdone, files, lastSaved, conn>>

(* A request no pattern matches: NotFoundHandler. *)
MuxNotFound ==
    \E path \in ReqPaths :
        /\ Routes[path].kind = "notfound"
        /\ req' = [path |-> path, form |-> NoForm]
        /\ resp' = NotFound
        /\ ran' = NoHandler
        /\ UNCHANGED <<vpath, vm, vdone, files, lastSaved, conn>>

(* A request routed to the handler registered as fn. *)
Serve(fn, path, form, f, terr) ==
    /\ Routes[path].kind = "handler"
    /\ Routes[path].fn = fn
    /\ \E r \in {makeHandler(fn, files, path, form, f, terr)} :
           /\ req' = [path |-> path, form |-> form]
           /\ resp' = r.out.resp
           /\ ran' = r.ran
           /\ files' = r.out.fs
           /\ lastSaved' = Saved(lastSaved, r, form)
    /\ UNCHANGED <<vpath, vm, vdone, conn>>

ViewRequest ==
    \E path \in ReqPaths, terr \in TemplateErrs :
        Serve("viewHandler", path, NoForm, NoFault, terr)

EditRequest ==
    \E path \in ReqPaths, terr \in TemplateErrs :
        Serve("editHandler", path, NoForm, NoFault, terr)

SaveRequest ==
    \E path \in ReqPaths, form \in Forms :
        \E f \in WriteFaults(FormValue(form, "body")) :
            Serve("saveHandler", path, form, f, Nil)

Next == MuxRedirect \/ MuxNotFound \/ ViewRequest \/ EditRequest \/ SaveRequest

Spec == Init /\ [][Next]_vars

-----------------------------------------------------------------------------
(* The validator on its own, over ValidatorPaths. *)

InitPath ==
    /\ vpath \in ValidatorPaths
    /\ vm = NoMatch
    /\ vdone = FALSE
    /\ files = [n \in {} |-> << >>]
    /\ req = NoRequest
    /\ resp = Error("", 0)
    /\ ran = NoHandler
    /\ lastSaved = [t \in {} |-> << >>]
    /\ conn = [c \in 1..MaxInflight |-> Idle]

Validate ==
    /\ ~vdone
    /\ vm' = FindStringSubmatch(vpath)
    /\ vdone' = TRUE
    /\ UNCHANGED <<vpath, files, req, resp, ran, lastSaved, conn>>

NextPath == Validate

SpecPath == InitPath /\ [][NextPath]_vars

-----------------------------------------------------------------------------
(* The server with up to MaxInflight requests in their handlers at once:   *)
(* net/http runs each request in its own goroutine and nothing in wiki.go  *)
(* locks.  A handler is cut at its system calls on the shared directory:   *)
(* ReadFile is an open and then reads up to end of file, WriteFile an open *)
(* that creates or truncates and then writes at its own offset.  Each      *)
(* connection serves one request.                                          *)

ConcBodies == { <<104>>, <<105, 105>> }

ConcForms == { [k \in {"body"} |-> b] : b \in ConcBodies }

ConcPaths ==
    { <<"/","v","i","e","w","/","a">>, <<"/","e","d","i","t","/","a">>,
      <<"/","s","a","v","e","/","a">>,
      <<"/","v","i","e","w","/","a","/">>, <<"/","v","i","e","w">> }

ConcRoutes == [p \in ConcPaths |-> muxHandler(p)]

InFlight(c) == conn[c].pc \in {"ropen", "read", "wopen", "write"}

InitConc ==
    /\ vpath = << >>
    /\ vm = NoMatch
    /\ vdone = FALSE
    /\ \E d \in {Missing} \cup { Holding(b) : b \in ConcBodies } :
          files = IF d.exists
                  THEN [n \in {Filename(<<"a">>)} |-> d.data]
                  ELSE [n \in {} |-> << >>]
    /\ req = NoRequest
    /\ resp = Error("", 0)
    /\ ran = NoHandler
    /\ lastSaved = [t \in {} |-> << >>]
    /\ conn = [c \in 1..MaxInflight |-> Idle]

(* The request is answered r and the connection is done. *)
Finish(c, r) == conn' = [conn EXCEPT ![c].pc = "done", ![c].resp = r]

(* A request the mux or the dispatcher answers without a page handler. *)
AcceptRejected(c) ==
    \E path \in ConcPaths :
        /\ conn[c].pc = "idle"
        /\ \/ ConcRoutes[path].kind # "handler"
           \/ FindStringSubmatch(path) = NoMatch
        /\ conn' = [conn EXCEPT
               ![c].pc = "done",
               ![c].path = path,
               ![c].resp =
                   IF ConcRoutes[path].kind = "redirect"
                   THEN Redirect(ConcRoutes[path].to, 301)
                   ELSE NotFound]
        /\ UNCHANGED <<vpath, vm, vdone, files, req, resp, ran, lastSaved>>

(* A request the dispatcher hands to its page handler: the handler is at   *)
(* its first system call (saveHandler has read the form by then).          *)
AcceptPage(c) ==
    \E path \in ConcPaths, form \in ConcForms :
        /\ conn[c].pc = "idle"
        /\ ConcRoutes[path].kind = "handler"
        /\ FindStringSubmatch(path) # NoMatch
        /\ \E m \in {FindStringSubmatch(path)}, fn \in {ConcRoutes[path].fn} :
              conn' = [d \in 1..MaxInflight |->
                  IF d = c
                  THEN [Idle EXCEPT
                          !.pc = IF fn = "saveHandler" THEN "wopen" ELSE "ropen",
                          !.path = path,
                          !.fn = fn,
                          !.title = m[3],
                          !.body = IF fn = "saveHandler"
                                   THEN FormValue(form, "body") ELSE << >>,
                          !.before = IF fn = "saveHandler"
                                     THEN Content(files, Filename(m[3])) ELSE Missing,
                          !.ov = { e \in 1..MaxInflight : InFlight(e) }]
                  ELSE IF InFlight(d)
                       THEN [conn[d] EXCEPT !.ov = @ \cup {c}]
                       ELSE conn[d]]
        /\ UNCHANGED <<vpath, vm, vdone, files, req, resp, ran, lastSaved>>

(* loadPage, the open of ReadFile: when it fails, viewHandler redirects    *)
(* and editHandler goes on with an empty page.                             *)
LoadOpen(c) ==
    /\ conn[c].pc = "ropen"
    /\ IF Filename(conn[c].title) \in DOMAIN files
       THEN conn' = [conn EXCEPT ![c].pc = "read"]
       ELSE \E terr \in TemplateErrs :
               conn' = [conn EXCEPT
                   ![c].pc = "done",
                   ![c].seen = Missing,
                   ![c].resp =
                       IF conn[c].fn = "viewHandler"
                       THEN Redirect(<<"/","e","d","i","t","/">> \o conn[c].title,
                                     StatusFound)
                       ELSE renderTemplate(<<"e","d","i","t">>,
                                [Title |-> conn[c].title, Body |-> << >>], terr)]
    /\ UNCHANGED <<vpath, vm, vdone, files, req, resp, ran, lastSaved>>

(* loadPage, a read of ReadFile: what the file holds from the offset on;   *)
(* nothing there is the end of the file, and the handler renders its       *)
(* template on what was read.                                              *)
LoadRead(c) ==
    /\ conn[c].pc = "read"
    /\ LET file  == files[Filename(conn[c].title)]
           chunk == SubSeq(file, Len(conn[c].buf) + 1, Len(file))
       IN  IF chunk # << >>
           THEN conn' = [conn EXCEPT ![c].buf = @ \o chunk]
           ELSE \E terr \in TemplateErrs :
                   conn' = [conn EXCEPT
                       ![c].pc = "done",
                       ![c].seen = Holding(conn[c].buf),
                       ![c].resp = renderTemplate(
                           IF conn[c].fn = "viewHandler"
                           THEN <<"v","i","e","w">> ELSE <<"e","d","i","t">>,
                           [Title |-> conn[c].title, Body |-> conn[c].buf], terr)]
    /\ UNCHANGED <<vpath, vm, vdone, files, req, resp, ran, lastSaved>>

(* Mutant of SaveOpen: the open creates the file but does not truncate it. *)
SaveOpenNoTrunc(c) ==
    /\ conn[c].pc = "wopen"
    /\ \/ /\ Finish(c, Error("permission denied", StatusInternalServerError))
          /\ UNCHANGED files
       \/ /\ files' = IF Filename(conn[c].title) \in DOMAIN files
                       THEN files
                       ELSE Put(files, Filename(conn[c].title), << >>)
          /\ conn' = [conn EXCEPT ![c].pc = "write"]
    /\ UNCHANGED <<vpath, vm, vdone, req, resp, ran, lastSaved>>

(* Page.save, the open of WriteFile: it fails, or it creates or truncates  *)
(* the file.                                                               *)
SaveOpen(c) ==
    /\ conn[c].pc = "wopen"
    /\ \/ /\ Finish(c, Error("permission denied", StatusInternalServerError))
          /\ UNCHANGED files
       \/ /\ files' = Put(files, Filename(conn[c].title), << >>)
          /\ conn' = [conn EXCEPT ![c].pc = "write"]
    /\ UNCHANGED <<vpath, vm, vdone, req, resp, ran, lastSaved>>

(* The file with chunk written at offset off (a gap reads as zeros). *)
WriteAt(file, off, chunk) ==
    LET n == IF Len(file) > off + Len(chunk) THEN Len(file) ELSE off + Len(chunk)
    IN  [i \in 1..n |->
            IF i > off /\ i <= off + Len(chunk) THEN chunk[i - off]
            ELSE IF i <= Len(file) THEN file[i] ELSE 0]

(* Page.save, the write of WriteFile: some of what is left gets written,   *)
(* or the write fails; with nothing left the file is closed and            *)
(* saveHandler redirects.                                                  *)
SaveWrite(c) ==
    /\ conn[c].pc = "write"
    /\ LET name == Filename(conn[c].title)
           left == Len(conn[c].body) - conn[c].off
       IN  IF left = 0
           THEN /\ Finish(c, Redirect(<<"/","v","i","e","w","/">> \o conn[c].title,
                                      StatusFound))
                /\ UNCHANGED files
           ELSE \/ \E k \in 1..left :
                      /\ files' = Put(files, name,
                             WriteAt(files[name], conn[c].off,
                                     SubSeq(conn[c].body, conn[c].off + 1,
                                            conn[c].off + k)))
                      /\ conn' = [conn EXCEPT ![c].off = @ + k]
                \/ /\ Finish(c, Error("no space left on device",
                                      StatusInternalServerError))
                   /\ UNCHANGED files
    /\ UNCHANGED <<vpath, vm, vdone, req, resp, ran, lastSaved>>

NextConc ==
    \E c \in 1..MaxInflight :
        \/ AcceptRejected(c)
        \/ AcceptPage(c)
        \/ LoadOpen(c)
        \/ LoadRead(c)
        \/ SaveOpen(c)
        \/ SaveWrite(c)

SpecConc == InitConc /\ [][NextConc]_vars

-----------------------------------------------------------------------------
(* What the claims speak of, said without the scanner or the mux. *)

ActionWords == { <<"v","i","e","w">>, <<"e","d","i","t">>, <<"s","a","v","e">> }

(* p is "/" + action + "/" + one or more alphanumeric characters. *)
InGrammar(p) ==
    \E a \in ActionWords :
        \E n \in 1..Len(p) :
            /\ Len(p) = 1 + Len(a) + 1 + n
            /\ p[1] = "/"
            /\ \A i \in 1..Len(a) : p[1 + i] = a[i]
            /\ p[Len(a) + 2] = "/"
            /\ \A i \in (Len(a) + 3)..Len(p) : p[i] \in AlnumClass

(* The tail of a path of the grammar (every action word has 4 letters). *)
TitleOf(p) == SubSeq(p, 7, Len(p))

(* The action segment of a path of the grammar, and the handler it names. *)
ActionOf(p) == SubSeq(p, 2, 5)

HandlerNamed(a) ==
    CASE a = <<"v","i","e","w">> -> "viewHandler"
      [] a = <<"e","d","i","t">> -> "editHandler"
      [] a = <<"s","a","v","e">> -> "saveHandler"
      [] OTHER -> "none"

(* A path the mux does not take as it is: not rooted, an empty segment, a  *)
(* "." or ".." segment, or an action root without its slash.               *)
NotCanonical(p) ==
    \/ p = << >>
    \/ p[1] # "/"
    \/ \E i \in 1..(Len(p) - 1) : p[i] = "/" /\ p[i + 1] = "/"
    \/ \E i \in 1..(Len(p) - 1) :
          /\ p[i] = "/"
          /\ p[i + 1] = "."
          /\ \/ i + 1 = Len(p)
             \/ p[i + 2] = "/"
             \/ p[i + 2] = "." /\ (i + 2 = Len(p) \/ p[i + 3] = "/")
    \/ \E a \in ActionWords : p = <<"/">> \o a

(* A file name of the form title + ".txt" with an alphanumeric title. *)
PageFileName(n) ==
    /\ Len(n) > 4
    /\ SubSeq(n, Len(n) - 3, Len(n)) = <<".", "t", "x", "t">>
    /\ \A i \in 1..(Len(n) - 4) : n[i] \in AlnumClass

ViewTemplate == <<"v","i","e","w",".","h","t","m","l">>
EditTemplate == <<"e","d","i","t",".","h","t","m","l">>

(* The 500 responses a failed template execution produces. *)
TemplateFailures ==
    { Error(e, StatusInternalServerError) : e \in TemplateErrs \ {Nil} }

-----------------------------------------------------------------------------
(* C1: validPath matches a path exactly when the path is "/" + view, edit  *)
(* or save + "/" + one or more characters of [a-zA-Z0-9], with nothing     *)
(* before or after, and on a match the extracted title m[2] is exactly     *)
(* that alphanumeric tail (and m[1] the action word).                      *)
C1_ValidPathGrammar ==
    vdone =>
        /\ (vm # NoMatch) <=> InGrammar(vpath)
        /\ vm # NoMatch =>
              /\ vm[1] = vpath
              /\ vm[2] = ActionOf(vpath)
              /\ vm[3] = TitleOf(vpath)
              /\ vm[3] # << >>
              /\ \A i \in 1..Len(vm[3]) : vm[3][i] \in AlnumClass

C1_Witness ==
    /\ vdone
    /\ vpath = <<"/","v","i","e","w","/","a","Z","1">>
    /\ vm # NoMatch
    /\ vm[3] = <<"a","Z","1">>

(* C2, as claimed: every request whose path is not of the grammar is       *)
(* answered 404, no page handler is invoked and the stored pages are       *)
(* unchanged.                                                              *)
C2_Original ==
    [][ ~InGrammar(req'.path) =>
           /\ resp'.status = 404
           /\ ran'.fn = "none"
           /\ files' = files ]_vars

(* C2, amended: every request whose path is not of the grammar invokes no  *)
(* page handler and leaves the stored pages unchanged; it is answered 404, *)
(* except that the mux answers 301 (a redirect to the canonical path) when *)
(* the path is not canonical: not rooted, with an empty, "." or ".."       *)
(* segment, or an action root without its slash.                           *)
C2_InvalidPathNoEffect ==
    [][ ~InGrammar(req'.path) =>
           /\ ran'.fn = "none"
           /\ files' = files
           /\ IF NotCanonical(req'.path)
              THEN /\ resp'.status = 301
                   /\ ~NotCanonical(resp'.location)
              ELSE resp' = NotFound ]_vars

C2_Witness ==
    /\ req.path = <<"/","s","a","v","e","/","a",".","t","x","t">>
    /\ req.form # NoForm
    /\ resp = NotFound
    /\ ran.fn = "none"
    /\ DOMAIN files # {}

(* C3: after a successful save of the page (T, B), with no later write to  *)
(* T, loadPage(T) returns without error a page whose title is T and whose  *)
(* body is exactly B.                                                      *)
C3_RoundTrip ==
    \A t \in DOMAIN lastSaved :
        loadPage(files, t) = [err |-> Nil, page |-> [Title |-> t, Body |-> lastSaved[t]]]

C3_Witness ==
    /\ ran.fn = "viewHandler"
    /\ ran.title \in DOMAIN lastSaved
    /\ lastSaved[ran.title] = <<105>>
    /\ resp.page = [Title |-> ran.title, Body |-> <<105>>]
    /\ Cardinality(DOMAIN lastSaved) = 2

(* C4: a save request for title T with body B ends in exactly one of two   *)
(* ways: the write failed, and the response is 500 with the error's text   *)
(* and no redirect; or the write succeeded, the page (T, B) is in storage  *)
(* and the response is a 302 redirect to /view/T.                          *)
C4_SaveOutcome ==
    ran.fn = "saveHandler" =>
        /\ ran.title = TitleOf(req.path)
        /\ ran.err # Nil =>
              /\ resp.status = 500
              /\ resp.text = ran.err
              /\ resp.location = NoLocation
        /\ ran.err = Nil =>
              /\ resp.status = 302
              /\ resp.location = <<"/","v","i","e","w","/">> \o ran.title
              /\ resp.text = ""
              /\ Filename(ran.title) \in DOMAIN files
              /\ files[Filename(ran.title)] = FormValue(req.form, "body")

C4_Witness ==
    /\ ran.fn = "saveHandler"
    /\ ran.err = "no space left on device"
    /\ resp.status = 500
    /\ resp.text = "no space left on device"

(* C5: a view request for a title T whose page cannot be loaded is         *)
(* answered with a 302 redirect to /edit/T; no template is rendered and no *)
(* stored page is created or changed.                                      *)
C5_ViewMissingRedirects ==
    [][ (ran'.fn = "viewHandler" /\ loadPage(files, ran'.title).err # Nil) =>
           /\ resp'.status = 302
           /\ resp'.location = <<"/","e","d","i","t","/">> \o TitleOf(req'.path)
           /\ resp'.tmpl = NoTemplate
           /\ files' = files ]_vars

C5_Witness ==
    /\ ran.fn = "viewHandler"
    /\ req.path = <<"/","v","i","e","w","/","A">>
    /\ resp.status = 302
    /\ resp.location = <<"/","e","d","i","t","/","A">>
    /\ Filename(<<"A">>) \notin DOMAIN files
    /\ Filename(<<"a">>) \in DOMAIN files

(* C6, as claimed: an edit request for a title T with no stored page       *)
(* renders the edit form with title T and an empty body, never produces an *)
(* error response, and creates no page.                                    *)
C6_Original ==
    [][ (ran'.fn = "editHandler" /\ Filename(ran'.title) \notin DOMAIN files) =>
           /\ resp' = Rendered(EditTemplate, [Title |-> TitleOf(req'.path), Body |-> << >>])
           /\ files' = files ]_vars

(* C6, amended: an edit request for a title T with no stored page runs the *)
(* edit template on the page (T, empty body) and creates no page; the load *)
(* failure is never surfaced, and the only error response there can be is  *)
(* the 500 of renderTemplate when the execution of the template fails.     *)
C6_EditMissingRendersBlank ==
    [][ (ran'.fn = "editHandler" /\ Filename(ran'.title) \notin DOMAIN files) =>
           /\ \/ resp' = Rendered(EditTemplate,
                                  [Title |-> TitleOf(req'.path), Body |-> << >>])
              \/ resp' \in TemplateFailures
           /\ resp'.text # loadPage(files, ran'.title).err
           /\ files' = files ]_vars

C6_Witness ==
    /\ ran.fn = "editHandler"
    /\ req.path = <<"/","e","d","i","t","/","a">>
    /\ Filename(<<"a">>) \notin DOMAIN files
    /\ resp = Rendered(EditTemplate, [Title |-> <<"a">>, Body |-> << >>])

(* C7, as claimed: once a save of T with body B has succeeded and no later *)
(* save of T has happened, a view request for T is answered 200 with the   *)
(* view template rendered on body B.                                       *)
C7_Original ==
    (ran.fn = "viewHandler" /\ ran.title \in DOMAIN lastSaved) =>
        resp = Rendered(ViewTemplate, [Title |-> ran.title, Body |-> lastSaved[ran.title]])

(* C7, amended: once a save of T with body B has succeeded and no later    *)
(* save of T has happened, a view request for T is never redirected to     *)
(* edit: it runs the view template on the page (T, B) read from storage,   *)
(* and is answered 200 with that rendering unless the execution of the     *)
(* template fails (500).                                                   *)
C7_ViewShowsLastSave ==
    (ran.fn = "viewHandler" /\ ran.title \in DOMAIN lastSaved) =>
        \/ resp = Rendered(ViewTemplate,
                           [Title |-> ran.title, Body |-> lastSaved[ran.title]])
        \/ resp \in TemplateFailures

C7_Witness ==
    /\ ran.fn = "viewHandler"
    /\ ran.title = <<"a">>
    /\ <<"a">> \in DOMAIN lastSaved
    /\ <<"A">> \in DOMAIN lastSaved
    /\ lastSaved[<<"a">>] # lastSaved[<<"A">>]
    /\ resp = Rendered(ViewTemplate, [Title |-> <<"a">>, Body |-> lastSaved[<<"a">>]])

(* C9: every request that reaches a page handler reaches the handler named *)
(* by the action segment of its path, and the handler gets the title of    *)
(* that path.                                                              *)
C9_HandlerMatchesAction ==
    ran.fn # "none" =>
        /\ InGrammar(req.path)
        /\ ran.fn = HandlerNamed(ActionOf(req.path))
        /\ ran.title = TitleOf(req.path)

C9_Witness ==
    /\ ran.fn = "saveHandler"
    /\ req.path = <<"/","s","a","v","e","/","A">>
    /\ resp.status = 302

(* C10: every stored file is named title + ".txt" for an alphanumeric      *)
(* title, distinct titles have distinct files, a save of T leaves what is  *)
(* loaded for every other title as it was, and a request that is not a     *)
(* save changes no stored page.                                            *)
C10_Frame ==
    [][ /\ \A n \in DOMAIN files' : PageFileName(n)
        /\ \A t1, t2 \in ReqTitles : t1 # t2 => Filename(t1) # Filename(t2)
        /\ ran'.fn # "saveHandler" => files' = files
        /\ ran'.fn = "saveHandler" =>
              /\ DOMAIN files' \subseteq DOMAIN files \cup {TitleOf(req'.path) \o <<".","t","x","t">>}
              /\ \A t \in ReqTitles \ {TitleOf(req'.path)} :
                    loadPage(files', t) = loadPage(files, t) ]_vars

C10_Witness ==
    /\ ran.fn = "saveHandler"
    /\ ran.title = <<"A">>
    /\ ran.err = Nil
    /\ DOMAIN files = {Filename(<<"a">>), Filename(<<"A">>)}
    /\ files[Filename(<<"a">>)] = <<104>>
    /\ files[Filename(<<"A">>)] = <<105>>

(* The save requests for the same title that were in their handler at     *)
(* some moment request c was in its own.                                   *)
SavesRacing(c) ==
    { s \in conn[c].ov : conn[s].fn = "saveHandler" /\ conn[s].title = conn[c].title }

(* v is a finished view request that ran concurrently with the save s of   *)
(* the same title and with no other, and s with no other save of it.       *)
ViewRacesSave(v, s) ==
    /\ conn[v].pc = "done"
    /\ conn[v].fn = "viewHandler"
    /\ SavesRacing(v) = {s}
    /\ SavesRacing(s) = {}

(* What a reader can get of a file that held old while body is written to  *)
(* it without a lock: old, or some prefix of old (what was read before the *)
(* truncation) followed by what body has from that offset up to some       *)
(* length (what was read after it, while the file grows).  This covers     *)
(* body itself, every prefix of body and the empty file.                   *)
RaceReads(old, body) ==
    {old} \cup
    { Holding(SubSeq(old.data, 1, j) \o SubSeq(body, j + 1, k)) :
         j \in 0..Len(old.data), k \in 0..Len(body) }

(* C8, as claimed: a view of T that runs concurrently with a save of T     *)
(* (whose write does not fail) observes either the content stored before   *)
(* the save or the content the save writes, and nothing else.              *)
C8_Original ==
    \A v, s \in 1..MaxInflight :
        (ViewRacesSave(v, s) /\ conn[s].resp.status # 500) =>
            conn[v].seen \in {conn[s].before, Holding(conn[s].body)}

(* C8, amended: a view of T that runs concurrently with one save of T      *)
(* observes the content stored before the save, the content the save       *)
(* writes, or a state of the unlocked write in between: a prefix of the    *)
(* old content followed by the part of the new content from that offset up *)
(* to some length (so also the empty file right after the truncation, and  *)
(* every prefix of the new content).                                       *)
C8_ViewSeesOldNewOrPartial ==
    \A v, s \in 1..MaxInflight :
        ViewRacesSave(v, s) =>
            conn[v].seen \in RaceReads(conn[s].before, conn[s].body)

C8_Witness ==
    \E v, s \in 1..MaxInflight :
        /\ ViewRacesSave(v, s)
        /\ conn[s].before = Holding(<<104>>)
        /\ conn[s].body = <<105, 105>>
        /\ conn[s].resp.status = 302
        /\ conn[v].seen = Holding(<<104, 105>>)
        /\ conn[v].resp.status = 200

=============================================================================
